---- MODULE Spec2Model ----
(***************************************************************************)
(* cviz web client: the inbound frame dispatcher of WebSocketManager, the  *)
(* (type, topic) history buckets of GeometryRenderer (canvas backend) and  *)
(* the connection life cycle of WebSocketManager, as state machines.       *)
(*                                                                         *)
(* JavaScript values are modelled as follows.  An optional number (a field *)
(* that may be undefined) is the empty sequence when undefined and <<v>>   *)
(* when it carries v.  A display object (PIXI handle) is a record          *)
(* [msg, gen, topic]: the frame it was drawn for, the redraw generation    *)
(* that created it and its topic member; null is NullH.                    *)
(***************************************************************************)
EXTENDS Integers, Sequences, FiniteSets, TLC

\* ------------------------------------------------------------------ bounds
MaxMsgs == 3       \* inbound frames handled in one run
MaxRedraws == 1    \* coordinate-transform changes in one run
MaxSockets == 7    \* new WebSocket(...) calls in one run
MaxPoints == 3     \* points of a legacy polygon handed to the converter
MaxCoord == 1      \* largest coordinate of such a point
MaxCommands == 2   \* commands handed to send in one run
MaxSubSockets == 2 \* connections made while the topic selection is exercised
MaxSubMsgs == 1    \* frames handled while the topic selection is exercised
MaxShapes == 2     \* sub-shapes of a legacy PolygonVector or LineStringVector

\* -------------------------------------------------------- program constants
MaxReconnectAttempts == 5      \* MAX_RECONNECT_ATTEMPTS
BaseReconnectTimeout == 1000   \* BASE_RECONNECT_TIMEOUT, in ms

\* ------------------------------------------------------------ value model
Undef == << >>
Def(v) == << v >>
IsDef(o) == o # Undef
Val(o) == o[1]

NoTopic == ""
Topics == {"default", "lane"}

\* keys of geometryContainers / geometries / geometryData that the model
\* exercises (four of the nine GeoJSON kinds)
GeoTypes == {"Point", "LineString", "Polygon", "FeatureCollection"}
NoType == "undefined"

NullH == [msg |-> 0, gen |-> 0, topic |-> NoTopic]

\* A GeoJSON object as far as the renderer reads it: its type, the number
\* n of coordinates (features for a FeatureCollection; Undef when the
\* member is absent), properties.history_limit, properties.life_time and
\* features[0].properties.history_limit.
Geo(t, n, phl, plt, fhl) ==
    [type |-> t, n |-> n, phl |-> phl, plt |-> plt, fhl |-> fhl]
NoGeo == Geo(NoType, Undef, Undef, Undef, Undef)

\* A legacy point list: present says the points member is an array.
NoPoints == [present |-> FALSE, pts |-> << >>]
Points(s) == [present |-> TRUE, pts |-> s]

\* A parsed frame.  own is the frame read as a GeoJSON object itself (its
\* top-level type / coordinates / properties), geojson its geojson member.
Frame(ok, dt, topic, hl, lt, own, gj, pts) ==
    [ok |-> ok, data_type |-> dt, topic |-> topic, history_limit |-> hl,
     life_time |-> lt, own |-> own, geojson |-> gj, points |-> pts]

\* ------------------------------------------------------------ the inputs
\* Retention fields of a canonical frame: <<history_limit,
\* properties.history_limit, life_time, properties.life_time>>
RNone == << Undef, Undef, Undef, Undef >>
RTop == << Def(2), Undef, Undef, Undef >>
RProp == << Undef, Def(3), Undef, Undef >>
RBoth == << Def(2), Def(3), Undef, Undef >>
RZero == << Def(0), Undef, Undef, Undef >>
RNeg == << Def(0 - 1), Undef, Undef, Undef >>
RLife == << Undef, Undef, Def(1), Undef >>
RPropLife == << Undef, Undef, Undef, Def(1) >>
RLifeOff == << Undef, Undef, Def(0), Def(1) >>
RTopLife == << Def(2), Undef, Def(1), Undef >>

\* Geometries as <<type, n, features[0].properties.history_limit>>: a
\* LineString of one coordinate cannot be drawn, a FeatureCollection may
\* carry a limit in its first feature, Circle is no GeoJSON type.
Line2 == << "LineString", Def(2), Undef >>
Line1 == << "LineString", Def(1), Undef >>
Coll == << "FeatureCollection", Def(1), Undef >>
CollLimit == << "FeatureCollection", Def(1), Def(2) >>
Circle == << "Circle", Def(2), Undef >>

Payloads ==
    ({Line2} \X {RNone, RTop, RBoth, RZero, RNeg, RPropLife, RLifeOff, RTopLife})
    \cup ({Line1} \X {RNone, RLife})
    \cup ({Coll} \X {RNone, RTop})
    \cup ({CollLimit} \X {RNone, RProp})
    \cup ({Circle} \X {RNone})

\* {data_type: 'GeoJSON', type: ..., coordinates: ..., properties: ...};
\* frames without a topic go to the topic 'default'
FlatFrames ==
    { Frame(TRUE, "GeoJSON", tp[1], p[2][1], p[2][3],
            Geo(p[1][1], p[1][2], p[2][2], p[2][4], p[1][3]), NoGeo, NoPoints) :
        tp \in {<< "lane" >>}, p \in Payloads }
    \cup
    { Frame(TRUE, "GeoJSON", NoTopic, p[2][1], p[2][3],
            Geo(p[1][1], p[1][2], p[2][2], p[2][4], p[1][3]), NoGeo, NoPoints) :
        p \in {Line2} \X {RNone} }

\* {topic: ..., geojson: {...}} without a data_type
EnvelopeFrames ==
    { Frame(TRUE, NoType, "lane", p[2][1], p[2][3], NoGeo,
            Geo(p[1][1], p[1][2], p[2][2], p[2][4], p[1][3]), NoPoints) :
        p \in {Line2} \X {RNone, RBoth} }

\* legacy points are objects {x: ..., y: ...}
Pt(x, y) == [x |-> x, y |-> y]
P0 == Pt(0, 0)
P1 == Pt(1, 0)
P2 == Pt(1, 1)

\* {data_type: 'Polygon' | 'LineString' | 'Point2d', points | point: ...}
\* as <<data_type, points>>; a Point2d carries its point as a list of one
LegacyPayloads ==
    ({"Polygon"} \X {NoPoints, Points(<< P0, P1 >>), Points(<< P0, P1, P2 >>)})
    \cup ({"LineString"} \X {Points(<< P0, P1 >>)})
    \cup ({"Point2d"} \X {Points(<< P0 >>)})

LegacyFrames ==
    { Frame(TRUE, p[1], "lane", Undef, Undef, NoGeo, NoGeo, p[2]) :
        p \in LegacyPayloads }
    \cup
    { Frame(TRUE, p[1], "lane", Def(2), Def(1), NoGeo, NoGeo, p[2]) :
        p \in { << "LineString", Points(<< P0, P1 >>) >> } }

\* a frame that is not JSON, and one that matches no known format
BadFrames ==
    { Frame(FALSE, NoType, NoTopic, Undef, Undef, NoGeo, NoGeo, NoPoints),
      Frame(TRUE, "Other", "lane", Undef, Undef, NoGeo, NoGeo, NoPoints) }

Frames == FlatFrames \cup EnvelopeFrames \cup LegacyFrames \cup BadFrames

\* before the first frame
NoFrame == Frame(FALSE, "none", NoTopic, Undef, Undef, NoGeo, NoGeo, NoPoints)

\* ------------------------------------------------------------- variables
VARIABLES
    historyLimits,   \* GeometryRenderer.historyLimits: topic -> optional number
    lifeTimes,       \* GeometryRenderer.lifeTimes: topic -> optional number
    geometries,      \* GeometryRenderer.geometries[type][topic]: handles
    geometryData,    \* GeometryRenderer.geometryData[type][topic]: records
    children,        \* geometryContainers[type].children (the Render Sink)
    destroyed,       \* display objects on which destroy() has run
    timers,          \* pending life-time timeouts of manageGeometryHistory
    blocked,         \* a handler is spinning: the event loop never returns
    received,        \* frames handled so far
    redraws,         \* transform changes so far
    handler,         \* which handler ran last
    frame,           \* the frame passed to the last handleMessage
    sinkAdds,        \* addChild calls made by the last handler
    sinkRemoves,     \* removeChild calls made by the last handler
    dispatcher,      \* which of the two WebSocketManager classes is loaded
    sockets,         \* one entry per new WebSocket(...) call, in call order
    ws,              \* WebSocketManager.ws: index into sockets, 0 for null
    connectionTimeouts, \* sockets whose 5 s connectionTimeout is pending
    startTimer,      \* the setTimeout of init() is pending
    reconnectTimers, \* pending setTimeout callbacks of reconnect()
    reconnectAttempts, \* WebSocketManager.reconnectAttempts
    failedReports,   \* "Max reconnection attempts reached" reports so far
    status,          \* the status line of the debug panel
    selectedTopics,  \* TopicsPanel.selectedTopics
    sent,            \* frames passed to ws.send so far
    timeout,         \* delay in ms of the reconnect timer scheduled last
    input,           \* a function under test and its argument
    output,          \* its result, Undef before the call
    mapLoaded,       \* MapboxRenderer.mapLoaded
    mapDeferred,     \* pending 200 ms timers of processGeometryData, oldest first
    mapHistoryLimits, \* MapboxRenderer.historyLimits
    mapLifeTimes,    \* MapboxRenderer.lifeTimes
    mapGeometryData, \* MapboxRenderer.geometryData[type][topic]
    mapTimers,       \* pending life-time timeouts of MapboxRenderer
    mapBlocked,      \* manageGeometryHistory of MapboxRenderer is spinning
    mapArrived,      \* frames handed to MapboxRenderer so far
    mapApplied,      \* the frames that got past the readiness test, in order
    mapSource,       \* per type, the frames whose features the map source holds
    desiredTopics,   \* wsManager.desiredTopics
    queue,           \* commands waiting for an open connection, oldest first
    commands         \* number of commands handed to send so far

rvars == << historyLimits, lifeTimes, geometries, geometryData, children,
            destroyed, timers, blocked >>
gvars == << rvars, received, redraws, handler, frame, sinkAdds, sinkRemoves,
            dispatcher >>
tvars == << sockets, ws, connectionTimeouts, startTimer, reconnectTimers,
            reconnectAttempts, failedReports, status, selectedTopics, sent,
            timeout >>
\* the state of the map backend
mvars == << mapLoaded, mapDeferred, mapHistoryLimits, mapLifeTimes,
            mapGeometryData, mapTimers, mapBlocked, mapArrived, mapApplied,
            mapSource >>
\* the state of the subscription layer
svars == << desiredTopics, queue, commands >>
\* the state outside the canvas client: function harness, map backend and
\* subscription layer
ovars == << input, output, mvars, svars >>
vars == << gvars, tvars, ovars >>

\* a handler that makes no call on the Render Sink
NoSinkCalls == sinkAdds' = 0 /\ sinkRemoves' = 0

\* -------------------------------------------------------- sequence helpers
Last(s) == s[Len(s)]
DropFirst(s, k) == SubSeq(s, k + 1, Len(s))
Range(s) == { s[i] : i \in 1..Len(s) }
\* Array.prototype.indexOf, 1-based; 0 when absent
IndexOf(s, x) ==
    IF \E i \in 1..Len(s) : s[i] = x
    THEN CHOOSE i \in 1..Len(s) : s[i] = x /\ \A j \in 1..(i - 1) : s[j] # x
    ELSE 0
\* Array.prototype.splice(i, 1), 1-based; out of range removes nothing
Splice(s, i) ==
    IF i \in 1..Len(s) THEN SubSeq(s, 1, i - 1) \o SubSeq(s, i + 1, Len(s)) ELSE s

\* ------------------------------------------------ WebSocketManager dispatch
CanonicalTypes ==
    {"Point", "MultiPoint", "LineString", "MultiLineString", "Polygon",
     "MultiPolygon", "GeometryCollection", "Feature", "FeatureCollection"}

AllLegacyKinds ==
    {"Polygon", "PolygonVector", "Point2d", "LineString", "LineStringVector", "Text"}

isGeoJSONMessage(data) ==
    \/ data.data_type = "GeoJSON"
    \/ (data.geojson # NoGeo /\ data.geojson.type \in CanonicalTypes)

isLegacyFormatMessage(data) == data.data_type \in AllLegacyKinds

\* data.points.map(p => [p.x, p.y])
PolygonCoordinates(points) ==
    [i \in 1..Len(points) |-> << points[i].x, points[i].y >>]

\* a closing step that appends the first position whenever there is one
ClosedRingAlways(ring) == IF Len(ring) > 0 THEN Append(ring, ring[1]) ELSE ring

\* "Close the polygon if needed": the first position is pushed when the
\* ring is not empty and its last position differs from it in x or in y
ClosedRing(ring) ==
    IF Len(ring) > 0 /\ (ring[1][1] # Last(ring)[1] \/ ring[1][2] # Last(ring)[2])
    THEN Append(ring, ring[1])
    ELSE ring

\* The converters return null (NoGeo) when the geometry member is missing.
\* The remaining members of the frame, history_limit and life_time among
\* them, are copied into properties.  A Polygon gets one ring, whatever the
\* number of points; coordinates is the list of its rings.
convertPolygonToGeoJSON(data) ==
    IF ~data.points.present THEN NoGeo
    ELSE Geo("Polygon", Def(1), data.history_limit, data.life_time, Undef)
         @@ [coordinates |-> << ClosedRing(PolygonCoordinates(data.points.pts)) >>]

convertLineStringToGeoJSON(data) ==
    IF ~data.points.present THEN NoGeo
    ELSE Geo("LineString", Def(Len(data.points.pts)), data.history_limit,
             data.life_time, Undef)

convertPointToGeoJSON(data) ==
    IF ~data.points.present THEN NoGeo
    ELSE Geo("Point", Def(2), data.history_limit, data.life_time, Undef)

\* A sub-shape of a legacy vector is [id, points]; id is Undef when the
\* member is absent.  "polygon.id || `polygon_${index}`" with index from 0
VectorFeatureId(shape, prefix, i) ==
    IF IsDef(shape.id) /\ Val(shape.id) # "" THEN Val(shape.id)
    ELSE prefix \o ToString(i - 1)

\* convertPolygonVectorToGeoJSON(data), data.polygons being an array
convertPolygonVectorToGeoJSON(data) ==
    IF Len(data.polygons) = 0
    THEN [type |-> "MultiPolygon", coordinates |-> << >>]
    ELSE [type |-> "FeatureCollection",
          features |-> [i \in 1..Len(data.polygons) |->
              [type |-> "Polygon",
               coordinates |-> << ClosedRing(PolygonCoordinates(data.polygons[i].points)) >>,
               id |-> VectorFeatureId(data.polygons[i], "polygon_", i)]]]

\* convertLineStringVectorToGeoJSON(data), data.lines being an array
convertLineStringVectorToGeoJSON(data) ==
    IF Len(data.lines) = 0
    THEN [type |-> "MultiLineString", coordinates |-> << >>]
    ELSE [type |-> "FeatureCollection",
          features |-> [i \in 1..Len(data.lines) |->
              [type |-> "LineString",
               coordinates |-> PolygonCoordinates(data.lines[i].points),
               id |-> VectorFeatureId(data.lines[i], "line_", i)]]]

convertLegacyToGeoJSON(data) ==
    CASE data.data_type = "Polygon" -> convertPolygonToGeoJSON(data)
      [] data.data_type = "Point2d" -> convertPointToGeoJSON(data)
      [] data.data_type = "LineString" -> convertLineStringToGeoJSON(data)
      [] OTHER -> NoGeo

\* the object handleMessage builds around a converted legacy geometry
LegacyWrapper(data, geoJSON) ==
    Frame(TRUE, "GeoJSON", data.topic, data.history_limit, data.life_time,
          NoGeo, geoJSON, NoPoints)

\* ------------------------------------------------------- GeometryRenderer
\* const geoJSON = data.geojson || data: the geojson member wins
ExtractGeoJSONMember(data) == IF data.geojson # NoGeo THEN data.geojson ELSE data.own

\* const geoJSON = data.data_type === 'GeoJSON' ? data : data.geojson
ExtractGeoJSON(data) == IF data.data_type = "GeoJSON" THEN data.own ELSE data.geojson
HasGeoJSON(data) == data.data_type = "GeoJSON" \/ data.geojson # NoGeo

TopicOf(data) == IF data.topic = NoTopic THEN "default" ELSE data.topic

ResolveLifeTime(data, geoJSON) ==
    IF IsDef(data.life_time) THEN data.life_time
    ELSE IF IsDef(geoJSON.plt) THEN geoJSON.plt
    ELSE Def(0)

\* the resolution with "else 2" as its last branch
ResolveHistoryLimitDefaultTwo(data, geoJSON) ==
    IF IsDef(data.history_limit) THEN data.history_limit
    ELSE IF IsDef(geoJSON.phl) THEN geoJSON.phl
    ELSE IF geoJSON.type = "FeatureCollection" /\ IsDef(geoJSON.n)
            /\ Val(geoJSON.n) > 0 /\ IsDef(geoJSON.fhl) THEN geoJSON.fhl
    ELSE Def(2)

\* the resolution that keeps the value resolved earlier for the topic
\* when the frame carries none
ResolveHistoryLimitKeepsEarlier(data, geoJSON) ==
    IF IsDef(data.history_limit) THEN data.history_limit
    ELSE IF IsDef(geoJSON.phl) THEN geoJSON.phl
    ELSE IF geoJSON.type = "FeatureCollection" /\ IsDef(geoJSON.n)
            /\ Val(geoJSON.n) > 0 /\ IsDef(geoJSON.fhl) THEN geoJSON.fhl
    ELSE IF IsDef(historyLimits[TopicOf(data)]) THEN historyLimits[TopicOf(data)]
    ELSE Def(1)

ResolveHistoryLimit(data, geoJSON) ==
    IF IsDef(data.history_limit) THEN data.history_limit
    ELSE IF IsDef(geoJSON.phl) THEN geoJSON.phl
    ELSE IF geoJSON.type = "FeatureCollection" /\ IsDef(geoJSON.n)
            /\ Val(geoJSON.n) > 0 /\ IsDef(geoJSON.fhl) THEN geoJSON.fhl
    ELSE Def(1)

\* whether the drawGeoJSON<Type> method returns a display object
Drawable(type, n) ==
    CASE type = "Point" -> IsDef(n)
      [] type = "LineString" -> IsDef(n) /\ Val(n) >= 2
      [] type = "Polygon" -> IsDef(n) /\ Val(n) >= 1
      [] type = "FeatureCollection" -> IsDef(n)
      [] OTHER -> FALSE

\* const historyLimit = this.historyLimits[topic] || 1
EffectiveLimit(limit) == IF IsDef(limit) /\ Val(limit) # 0 THEN Val(limit) ELSE 1

\* "while (length > historyLimit + 1)": the loop stops one record early
ExcessOffByOne(s, historyLimit) ==
    IF Len(s) > historyLimit + 1 THEN Len(s) - historyLimit - 1 ELSE 0

\* how many shift() calls a "while (length > historyLimit)" loop makes
Excess(s, historyLimit) == IF Len(s) > historyLimit THEN Len(s) - historyLimit ELSE 0

\* an eviction that empties the whole container of the type
EvictedWholeContainer(s, historyLimit) ==
    IF Excess(s, historyLimit) > 0
    THEN { h \in Range(s) \cup UNION { children[k] : k \in GeoTypes } :
              h # NullH /\ h \notin destroyed }
    ELSE {}

\* the display objects the first loop removes from the container and destroys
Evicted(s, historyLimit) ==
    { h \in Range(SubSeq(s, 1, Excess(s, historyLimit))) : h # NullH /\ h \notin destroyed }

\* manageGeometryHistory(type, topic) after geometry g and record rec have
\* been pushed.  A negative limit never satisfies the loop's exit test once
\* the list is empty: the first loop spins and nothing after it runs.
manageGeometryHistory(type, topic, g, rec, added) ==
    LET historyLimit == EffectiveLimit(historyLimits'[topic])
        g1 == Append(geometries[type][topic], g)
        d1 == Append(geometryData[type][topic], rec)
        spins == historyLimit < 0
        gone == IF spins THEN { h \in Range(g1) : h # NullH /\ h \notin destroyed }
                ELSE Evicted(g1, historyLimit)
        g2 == IF spins THEN << >> ELSE DropFirst(g1, Excess(g1, historyLimit))
        d2 == IF spins THEN d1 ELSE DropFirst(d1, Excess(d1, historyLimit))
        lifeTime == lifeTimes'[topic]
    IN  /\ geometries' = [geometries EXCEPT ![type][topic] = g2]
        /\ geometryData' = [geometryData EXCEPT ![type][topic] = d2]
        /\ children' = [children EXCEPT ![type] = (@ \cup added) \ gone]
        /\ destroyed' = destroyed \cup gone
        /\ sinkRemoves' = Cardinality(gone)
        /\ blocked' = spins
        /\ timers' = IF ~spins /\ IsDef(lifeTime) /\ Val(lifeTime) > 0 /\ Len(g2) > 0
                     THEN timers \cup {[type |-> type, topic |-> topic,
                                        geometry |-> Last(g2), msg |-> rec.msg]}
                     ELSE timers

\* processGeometryData(data) for the frame numbered id
processGeometryData(data, id) ==
    IF ~HasGeoJSON(data)
    THEN UNCHANGED rvars /\ NoSinkCalls
    ELSE
      LET geoJSON == ExtractGeoJSON(data)
          topic == TopicOf(data)
          type == geoJSON.type
      IN  /\ lifeTimes' = [lifeTimes EXCEPT ![topic] = ResolveLifeTime(data, geoJSON)]
          /\ historyLimits' = [historyLimits EXCEPT
                                  ![topic] = ResolveHistoryLimit(data, geoJSON)]
          /\ IF type \notin GeoTypes
             THEN \* Unsupported GeoJSON type: return after the policy update
                  /\ NoSinkCalls
                  /\ UNCHANGED << geometries, geometryData, children, destroyed,
                                  timers, blocked >>
             ELSE LET drawn == Drawable(type, geoJSON.n)
                      g == IF drawn THEN [msg |-> id, gen |-> redraws, topic |-> topic]
                           ELSE NullH
                      rec == [msg |-> id, n |-> geoJSON.n]
                  IN  /\ sinkAdds' = IF drawn THEN 1 ELSE 0
                      /\ manageGeometryHistory(type, topic, g, rec,
                                               IF drawn THEN {g} ELSE {})

\* a dispatcher that hands frames of unknown format to the renderer too
handleMessageForwardsUnknown(data, id) ==
    IF ~data.ok
    THEN UNCHANGED rvars /\ NoSinkCalls
    ELSE IF isGeoJSONMessage(data)
    THEN processGeometryData(data, id)
    ELSE IF isLegacyFormatMessage(data)
    THEN LET geoJSON == convertLegacyToGeoJSON(data)
         IN  IF geoJSON # NoGeo
             THEN processGeometryData(LegacyWrapper(data, geoJSON), id)
             ELSE UNCHANGED rvars /\ NoSinkCalls
    ELSE processGeometryData(LegacyWrapper(data, data.own), id)

\* WebSocketManager.handleMessage(event)
handleMessage(data, id) ==
    IF ~data.ok
    THEN UNCHANGED rvars /\ NoSinkCalls      \* JSON.parse throws, caught
    ELSE IF isGeoJSONMessage(data)
    THEN processGeometryData(data, id)
    ELSE IF isLegacyFormatMessage(data)
    THEN LET geoJSON == convertLegacyToGeoJSON(data)
         IN  IF geoJSON # NoGeo
             THEN processGeometryData(LegacyWrapper(data, geoJSON), id)
             ELSE UNCHANGED rvars /\ NoSinkCalls
    ELSE UNCHANGED rvars /\ NoSinkCalls      \* Unknown message format

\* The second WebSocketManager class of websocket-manager.js validates the
\* legacy vocabulary and passes the frame on as it is.
validatePolygonData(data) == data.points.present /\ Len(data.points.pts) >= 3
validateLineStringData(data) == data.points.present /\ Len(data.points.pts) >= 2
validatePointData(data) == data.points.present

validateGeometryData(data) ==
    /\ data.data_type # NoType
    /\ CASE data.data_type = "Polygon" -> validatePolygonData(data)
         [] data.data_type = "Point2d" -> validatePointData(data)
         [] data.data_type = "LineString" -> validateLineStringData(data)
         [] OTHER -> FALSE

handleMessageValidated(data, id) ==
    IF ~data.ok
    THEN UNCHANGED rvars /\ NoSinkCalls
    ELSE IF validateGeometryData(data)
    THEN processGeometryData(data, id)
    ELSE UNCHANGED rvars /\ NoSinkCalls

\* ---------------------------------------------------------------- actions
InitRenderer ==
    /\ historyLimits = [t \in Topics |-> Undef]
    /\ lifeTimes = [t \in Topics |-> Undef]
    /\ geometries = [k \in GeoTypes |-> [t \in Topics |-> << >>]]
    /\ geometryData = [k \in GeoTypes |-> [t \in Topics |-> << >>]]
    /\ children = [k \in GeoTypes |-> {}]
    /\ destroyed = {}
    /\ timers = {}
    /\ blocked = FALSE
    /\ received = 0
    /\ redraws = 0
    /\ handler = "init"
    /\ frame = NoFrame
    /\ sinkAdds = 0
    /\ sinkRemoves = 0
    /\ dispatcher \in {"geojson", "validated"}

\* a socket as the manager sees it
Socket(readyState, wasOpen) == [readyState |-> readyState, wasOpen |-> wasOpen]

\* after init() and its start timer: nothing connected yet
InitTransport ==
    /\ sockets = << >>
    /\ ws = 0
    /\ connectionTimeouts = {}
    /\ startTimer = TRUE
    /\ reconnectTimers = 0
    /\ reconnectAttempts = 0
    /\ failedReports = 0
    /\ status = "Initializing..."
    /\ selectedTopics = {}
    /\ sent = << >>
    /\ timeout = 0

\* the first connection has opened
Connected ==
    /\ sockets = << Socket("OPEN", TRUE) >>
    /\ ws = 1
    /\ connectionTimeouts = {}
    /\ startTimer = FALSE
    /\ reconnectTimers = 0
    /\ reconnectAttempts = 0
    /\ failedReports = 0
    /\ status = "Connected"
    /\ selectedTopics = {}
    /\ sent = << >>
    /\ timeout = 0

\* MapboxRenderer after its constructor: the map has not loaded yet
InitMapbox ==
    /\ mapLoaded = FALSE
    /\ mapDeferred = << >>
    /\ mapHistoryLimits = [t \in Topics |-> Undef]
    /\ mapLifeTimes = [t \in Topics |-> Undef]
    /\ mapGeometryData = [k \in GeoTypes |-> [t \in Topics |-> << >>]]
    /\ mapTimers = {}
    /\ mapBlocked = FALSE
    /\ mapArrived = 0
    /\ mapApplied = << >>
    /\ mapSource = [k \in GeoTypes |-> {}]

\* no function is under test
NoCall == [fn |-> "none", arg |-> << >>]
Idle ==
    /\ input = NoCall /\ output = Undef
    /\ InitMapbox
    /\ desiredTopics = {} /\ queue = << >> /\ commands = 0

\* frames arrive on the open connection
Init == InitRenderer /\ Connected /\ Idle

\* ws.onmessage: one inbound frame
OnMessage(f) ==
    /\ ~blocked
    /\ ws # 0
    /\ sockets[ws].readyState = "OPEN"
    /\ received < MaxMsgs
    /\ received' = received + 1
    /\ handler' = "message"
    /\ frame' = f
    /\ IF dispatcher = "validated"
       THEN handleMessageValidated(f, received + 1)
       ELSE handleMessage(f, received + 1)
    /\ UNCHANGED << redraws, dispatcher, tvars, ovars >>

\* the timeout callback of manageGeometryHistory: what it does to the renderer
lifeTimeout(tm) ==
    LET g == tm.geometry
        live == g # NullH /\ g \notin destroyed
        index == IndexOf(geometries[tm.type][tm.topic], g)
    IN  /\ tm \in timers
        /\ timers' = timers \ {tm}
        /\ sinkAdds' = 0
        /\ sinkRemoves' = IF live THEN 1 ELSE 0
        /\ children' = IF live THEN [children EXCEPT ![tm.type] = @ \ {g}] ELSE children
        /\ destroyed' = IF live THEN destroyed \cup {g} ELSE destroyed
        /\ geometries' = IF live /\ index > 0
                         THEN [geometries EXCEPT ![tm.type][tm.topic] = Splice(@, index)]
                         ELSE geometries
        /\ geometryData' = IF live /\ index > 0
                           THEN [geometryData EXCEPT ![tm.type][tm.topic] = Splice(@, index)]
                           ELSE geometryData
        /\ UNCHANGED << historyLimits, lifeTimes, blocked >>

\* a life-time timeout of the canvas renderer fires
OnLifeTimeout(tm) ==
    /\ ~blocked
    /\ lifeTimeout(tm)
    /\ handler' = "timer"
    /\ frame' = NoFrame
    /\ UNCHANGED << received, redraws, dispatcher, tvars, ovars >>

\* the display objects redrawAllGeometries creates for one bucket
Redrawn(type, topic, data, gen) ==
    LET keep == SelectSeq(data, LAMBDA item : Drawable(type, item.n))
    IN  [i \in 1..Len(keep) |-> [msg |-> keep[i].msg, gen |-> gen, topic |-> topic]]

\* updateCoordinateTransform(fn): store the transform, redrawAllGeometries()
UpdateCoordinateTransform ==
    LET fresh == [k \in GeoTypes |-> [t \in Topics |->
                    Redrawn(k, t, geometryData[k][t], redraws + 1)]]
    IN  /\ ~blocked
        /\ redraws < MaxRedraws
        /\ redraws' = redraws + 1
        /\ handler' = "redraw"
        /\ frame' = NoFrame
        /\ geometries' = fresh
        /\ children' = [k \in GeoTypes |-> UNION { Range(fresh[k][t]) : t \in Topics }]
        /\ sinkAdds' = Cardinality(UNION { children'[k] : k \in GeoTypes })
        /\ sinkRemoves' = 0
        /\ UNCHANGED << historyLimits, lifeTimes, geometryData, destroyed, timers,
                        blocked, received, dispatcher, tvars, ovars >>

Next ==
    \/ \E f \in Frames : OnMessage(f)
    \/ \E tm \in timers : OnLifeTimeout(tm)
    \/ UpdateCoordinateTransform

Spec == Init /\ [][Next]_vars

\* ------------------------------------------- WebSocketManager connections
\* readyState of an entry of sockets.  FAILED is readyState CLOSED with the
\* close event still queued behind the error event; THROWN marks a
\* constructor call that threw, which left no socket.
ReadyStates == {"CONNECTING", "OPEN", "CLOSING", "FAILED", "CLOSED", "THROWN"}

Live == { i \in 1..Len(sockets) : sockets[i].readyState \in {"CONNECTING", "OPEN"} }

\* if (this.reconnectAttempts <= this.options.maxReconnectAttempts)
AtMostMaxAttempts == reconnectAttempts <= MaxReconnectAttempts

\* if (this.reconnectAttempts < this.options.maxReconnectAttempts)
BelowMaxAttempts == reconnectAttempts < MaxReconnectAttempts

\* a delay computed from the counter after its increment
ReconnectDelayAfterIncrement(attempts) == BaseReconnectTimeout * 2 ^ (attempts + 1)

\* const timeout = BASE_RECONNECT_TIMEOUT * Math.pow(2, this.reconnectAttempts)
ReconnectDelay(attempts) == BaseReconnectTimeout * 2 ^ attempts

\* a reconnect() that schedules without counting the attempt
reconnectWithoutCount(pending) ==
    IF BelowMaxAttempts
    THEN /\ timeout' = ReconnectDelay(reconnectAttempts)
         /\ reconnectTimers' = pending + 1
         /\ status' = "Reconnecting"
         /\ UNCHANGED << failedReports, reconnectAttempts >>
    ELSE /\ status' = "Failed - max attempts reached"
         /\ failedReports' = failedReports + 1
         /\ reconnectTimers' = pending
         /\ UNCHANGED << reconnectAttempts, timeout >>

\* reconnect(), called while pending reconnect timers are pending
reconnect(pending) ==
    IF BelowMaxAttempts
    THEN /\ timeout' = ReconnectDelay(reconnectAttempts)
         /\ reconnectAttempts' = reconnectAttempts + 1
         /\ reconnectTimers' = pending + 1
         /\ status' = "Reconnecting"
         /\ UNCHANGED failedReports
    ELSE /\ status' = "Failed - max attempts reached"
         /\ failedReports' = failedReports + 1
         /\ reconnectTimers' = pending
         /\ UNCHANGED << reconnectAttempts, timeout >>

\* connectWebSocket(); throws says that new WebSocket(...) throws
connectWebSocket(throws, pending) ==
    /\ Len(sockets) < MaxSockets
    /\ IF throws
       THEN /\ sockets' = Append(sockets, Socket("THROWN", FALSE))
            /\ reconnect(pending)
            /\ UNCHANGED << ws, connectionTimeouts >>
       ELSE /\ sockets' = Append(sockets, Socket("CONNECTING", FALSE))
            /\ ws' = Len(sockets) + 1
            /\ connectionTimeouts' = connectionTimeouts \cup {Len(sockets) + 1}
            /\ status' = "Connecting..."
            /\ reconnectTimers' = pending
            /\ UNCHANGED << reconnectAttempts, failedReports, timeout >>

\* the onerror handler of socket s, which also schedules a reconnection
onerrorReconnects(s) ==
    /\ connectionTimeouts' = connectionTimeouts \ {s}
    /\ reconnect(reconnectTimers)

\* the onerror handler of socket s
onerror(s) ==
    /\ connectionTimeouts' = connectionTimeouts \ {s}
    /\ status' = "Connection error"
    /\ UNCHANGED << reconnectAttempts, reconnectTimers, failedReports, timeout >>

\* the setTimeout callback of init()
StartTimer(throws) ==
    /\ startTimer
    /\ startTimer' = FALSE
    /\ connectWebSocket(throws, reconnectTimers)
    /\ UNCHANGED << selectedTopics, sent, gvars, ovars >>

\* the setTimeout callback of reconnect()
ReconnectTimer(throws) ==
    /\ reconnectTimers > 0
    /\ connectWebSocket(throws, reconnectTimers - 1)
    /\ UNCHANGED << startTimer, selectedTopics, sent, gvars, ovars >>

\* an open handler that leaves the connect timeout pending
OnOpenKeepsTimeout(s) ==
    /\ sockets[s].readyState = "CONNECTING"
    /\ sockets' = [sockets EXCEPT ![s] = Socket("OPEN", TRUE)]
    /\ reconnectAttempts' = 0
    /\ status' = "Connected"
    /\ UNCHANGED << ws, startTimer, reconnectTimers, failedReports, connectionTimeouts,
                    selectedTopics, sent, timeout, gvars, ovars >>

\* the open event of socket s
OnOpen(s) ==
    /\ sockets[s].readyState = "CONNECTING"
    /\ sockets' = [sockets EXCEPT ![s] = Socket("OPEN", TRUE)]
    /\ connectionTimeouts' = connectionTimeouts \ {s}
    /\ reconnectAttempts' = 0
    /\ status' = "Connected"
    /\ UNCHANGED << ws, startTimer, reconnectTimers, failedReports,
                    selectedTopics, sent, timeout, gvars, ovars >>

\* the error event of socket s: the connection failed or was lost
OnError(s) ==
    /\ sockets[s].readyState \in {"CONNECTING", "OPEN", "CLOSING"}
    /\ sockets' = [sockets EXCEPT ![s].readyState = "FAILED"]
    /\ onerror(s)
    /\ UNCHANGED << ws, startTimer, selectedTopics, sent, gvars, ovars >>

\* the close event of socket s: after an error, or a close by the server
OnClose(s) ==
    /\ sockets[s].readyState \in {"OPEN", "FAILED"}
    /\ sockets' = [sockets EXCEPT ![s].readyState = "CLOSED"]
    /\ connectionTimeouts' = connectionTimeouts \ {s}
    /\ reconnect(reconnectTimers)
    /\ UNCHANGED << ws, startTimer, selectedTopics, sent, gvars, ovars >>

\* the connectionTimeout callback set up for socket s; it reads this.ws
ConnectTimeout(s) ==
    /\ s \in connectionTimeouts
    /\ connectionTimeouts' = connectionTimeouts \ {s}
    /\ IF ws # 0 /\ sockets[ws].readyState # "OPEN"
       THEN /\ status' = "Connection timeout"
            /\ sockets' = IF sockets[ws].readyState = "CONNECTING"
                          THEN [sockets EXCEPT ![ws].readyState = "CLOSING"]
                          ELSE sockets
       ELSE UNCHANGED << status, sockets >>
    /\ UNCHANGED << ws, startTimer, reconnectTimers, reconnectAttempts,
                    failedReports, selectedTopics, sent, timeout, gvars, ovars >>

InitWS == InitRenderer /\ InitTransport /\ Idle /\ dispatcher = "geojson"

NextWS ==
    \/ \E throws \in BOOLEAN : StartTimer(throws)
    \/ \E throws \in BOOLEAN : ReconnectTimer(throws)
    \/ \E s \in 1..Len(sockets) : OnOpen(s)
    \/ \E s \in 1..Len(sockets) : OnError(s)
    \/ \E s \in 1..Len(sockets) : OnClose(s)
    \/ \E s \in connectionTimeouts : ConnectTimeout(s)

SpecWS == InitWS /\ [][NextWS]_vars

\* ------------------------------------------------------- topic colors
\* The own keys of TOPIC_STYLES with their color member; the entry
\* 'default' is the table of per-type colors and has no color member.
\* Colors are written as in the source: numbers in geometry-renderer.js,
\* strings in mapbox-renderer.js.
TOPIC_STYLES(backend) ==
    IF backend = "canvas"
    THEN [default |-> Undef, boundary |-> Def("0x0055ff"), agent |-> Def("0x00ffff"),
          obstacle |-> Def("0xff8800"), trajectory |-> Def("0x333333"),
          observation |-> Def("0xffcc00")]
    ELSE [default |-> Undef, boundary |-> Def("#0055ff"), agent |-> Def("#00ffff"),
          obstacle |-> Def("#ff8800"), trajectory |-> Def("#333333"),
          observation |-> Def("#ffcc00")]

\* TOPIC_STYLES.default
DefaultColors(backend) ==
    IF backend = "canvas"
    THEN [Point |-> "0x00ffff", MultiPoint |-> "0x00aaff", LineString |-> "0xff0000",
          MultiLineString |-> "0xaa0000", Polygon |-> "0x00ff00",
          MultiPolygon |-> "0x00aa00", GeometryCollection |-> "0xff00ff",
          Feature |-> "0xffffff", FeatureCollection |-> "0xffff00"]
    ELSE [Point |-> "#00ffff", MultiPoint |-> "#00aaff", LineString |-> "#ff0000",
          MultiLineString |-> "#aa0000", Polygon |-> "#00ff00",
          MultiPolygon |-> "#00aa00", GeometryCollection |-> "#ff00ff",
          Feature |-> "#ffffff", FeatureCollection |-> "#ffff00"]

\* the literal after "||"
FallbackColor(backend) == IF backend = "canvas" THEN "0xffffff" ELSE "#ffffff"

\* names every object literal inherits from Object.prototype; looked up in
\* TOPIC_STYLES they give a function, which is truthy and has no color
InheritedKeys == {"constructor", "toString", "valueOf", "hasOwnProperty"}

\* getTopicColor(topic, dataType) of GeometryRenderer and of MapboxRenderer
getTopicColor(backend, topic, dataType) ==
    IF topic \in DOMAIN TOPIC_STYLES(backend)
    THEN TOPIC_STYLES(backend)[topic]
    ELSE IF topic \in InheritedKeys
    THEN Undef
    ELSE IF dataType \in DOMAIN DefaultColors(backend)
    THEN Def(DefaultColors(backend)[dataType])
    ELSE Def(FallbackColor(backend))

\* ------------------------------------------------------ color extraction
\* A value of properties.color: a string made of a prefix and hexadecimal
\* digits (most significant first), a number, or another JSON value.
ColorString(prefix, digits) == [type |-> "string", prefix |-> prefix, digits |-> digits]
ColorNumber(v) == [type |-> "number", v |-> v]

RECURSIVE ParseHex(_)
\* parseInt(digits, 16); NaN (Undef) for no digits
ParseHex(digits) ==
    IF digits = << >> THEN Undef
    ELSE IF Len(digits) = 1 THEN Def(digits[1])
    ELSE Def(16 * Val(ParseHex(SubSeq(digits, 1, Len(digits) - 1))) + Last(digits))

\* the truthiness of a color property: every string of the model is
\* non-empty, a number is truthy unless it is 0
Truthy(c) == c # Undef /\ (c.type = "number" => c.v # 0)

\* the color read from geoJSON.properties.color, Undef when none is read
PropertyColor(c) ==
    IF ~Truthy(c) THEN Undef
    ELSE IF c.type = "string"
    THEN IF c.prefix = "#" THEN ParseHex(c.digits)       \* parseInt(substring(1), 16)
         ELSE IF c.prefix = "0x" THEN ParseHex(c.digits) \* parseInt(color, 16)
         ELSE Undef
    ELSE IF c.type = "number" THEN Def(c.v)
    ELSE Undef

\* the color passed to the draw method and stored with the record, with the
\* branch that produced it: "if (!color) color = getTopicColor(...)"
ExtractColor(c, topic, geoJSONType) ==
    LET color == PropertyColor(c)
    IN  IF color = Undef \/ Val(color) = 0
        THEN [property |-> FALSE, color |-> getTopicColor("canvas", topic, geoJSONType)]
        ELSE [property |-> TRUE, color |-> color]

\* ---------------------------------------------------- subscription layer
\* { action: "set_topics", topics: [...] } and { action: "subscribe", ... }
SetTopicsCommand(topics) == [action |-> "set_topics", topics |-> topics]
SubscribeCommand(topics) == [action |-> "subscribe", topics |-> topics]

\* the session is Open
IsOpen == ws # 0 /\ sockets[ws].readyState = "OPEN"

\* a queue that keeps every command
EnqueueKeepsAll(q, command) == Append(q, command)

\* the pending queue after command has joined it: a set_topics command
\* supersedes the one queued earlier, other kinds are kept as they are
Enqueue(q, command) ==
    IF command.action = "set_topics"
    THEN Append(SelectSeq(q, LAMBDA c : c.action # "set_topics"), command)
    ELSE Append(q, command)

\* send(command): transmitted at once when Open, queued otherwise
send(command) ==
    /\ commands' = commands + 1
    /\ IF IsOpen
       THEN sent' = Append(sent, command) /\ UNCHANGED queue
       ELSE queue' = Enqueue(queue, command) /\ UNCHANGED sent

\* a clear that destroys the matching children and leaves them in the
\* container
clearLeavesChildren(type, topic) == children[type]

\* GeometryRenderer.clear(type, topic): the children of the container of
\* type after the call; without a topic every child is removed
clear(type, topic) ==
    { h \in children[type] : ~(topic = NoTopic \/ h.topic = topic) }

\* purgeTopic(T) for every T of removed: the display objects of T leave
\* every container, the records of T leave every bucket and the pending
\* life-time timers of T are cancelled
purgeTopics(removed) ==
    LET kept == [k \in GeoTypes |->
                    { h \in children[k] : \A t \in removed : h \in clear(k, t) }]
        gone == UNION { children[k] \ kept[k] : k \in GeoTypes }
    IN  /\ children' = kept
        /\ destroyed' = destroyed \cup gone
        /\ sinkAdds' = 0
        /\ sinkRemoves' = Cardinality(gone)
        /\ geometries' = [k \in GeoTypes |-> [t \in Topics |->
                             IF t \in removed THEN << >> ELSE geometries[k][t]]]
        /\ geometryData' = [k \in GeoTypes |-> [t \in Topics |->
                               IF t \in removed THEN << >> ELSE geometryData[k][t]]]
        /\ timers' = { tm \in timers : tm.topic \notin removed }
        /\ UNCHANGED << historyLimits, lifeTimes, blocked >>

\* setTopics(newSet): purge the topics that left the desired set, store
\* the new set, emit one command that carries all of it
setTopics(newSet) ==
    /\ purgeTopics(desiredTopics \ newSet)
    /\ desiredTopics' = newSet
    /\ send(SetTopicsCommand(newSet))

\* a pushSelection that passes the selection as it was before the change
pushSelectionStale(topicsArray) == setTopics(selectedTopics)

\* TopicsPanel.pushSelection(): Array.from(this.selectedTopics) goes to
\* wsManager.setTopics
pushSelection(topicsArray) == setTopics(topicsArray)

\* what a call from the page leaves alone
PageCall(name) ==
    /\ ~blocked
    /\ commands < MaxCommands
    /\ handler' = name
    /\ frame' = NoFrame
    /\ UNCHANGED << received, redraws, dispatcher, sockets, ws, connectionTimeouts,
                    startTimer, reconnectTimers, reconnectAttempts, failedReports,
                    status, timeout, input, output, mvars >>

\* the topics the panel lists (TopicsPanel.topics)
PanelTopics == Topics

\* the change handler of a checkbox of the topics panel
OnTopicChange(t) ==
    /\ PageCall("panel")
    /\ selectedTopics' = IF t \in selectedTopics
                         THEN selectedTopics \ {t}
                         ELSE selectedTopics \cup {t}
    /\ pushSelection(selectedTopics')

\* the click handler of the All button
OnSelectAll ==
    /\ PageCall("panel")
    /\ selectedTopics' = selectedTopics \cup PanelTopics
    /\ pushSelection(selectedTopics')

\* the click handler of the None button
OnSelectNone ==
    /\ PageCall("panel")
    /\ selectedTopics' = {}
    /\ pushSelection(selectedTopics')

\* MapRenderer.subscribeToTopics(topics)
OnSubscribe(topics) ==
    /\ PageCall("subscribe")
    /\ send(SubscribeCommand(topics))
    /\ NoSinkCalls
    /\ UNCHANGED << rvars, selectedTopics, desiredTopics >>

\* the topic lists subscribeToTopics is called with
SubscribeSets == { {"lane"} }

\* the value of handler after purgeTopic(t)
PurgeOf == [t \in Topics |-> IF t = "lane" THEN "purge lane" ELSE "purge default"]

\* MapRenderer.clearTopic(topic)
OnClearTopic(t) ==
    /\ ~blocked
    /\ handler' = PurgeOf[t]
    /\ frame' = NoFrame
    /\ purgeTopics({t})
    /\ UNCHANGED << received, redraws, dispatcher, tvars, ovars >>

\* frames handled while the selection changes
SubFrames ==
    { Frame(TRUE, "GeoJSON", p[1], p[3][1], p[3][3],
            Geo(p[2][1], p[2][2], p[3][2], p[3][4], p[2][3]), NoGeo, NoPoints) :
        p \in { << "lane", Line2, RTop >>, << NoTopic, Line2, RTopLife >> } }

SubMessage(f) == received < MaxSubMsgs /\ OnMessage(f)
SubStart == Len(sockets) < MaxSubSockets /\ StartTimer(FALSE)
SubReconnect == Len(sockets) < MaxSubSockets /\ ReconnectTimer(FALSE)

InitSub == InitRenderer /\ InitTransport /\ Idle /\ dispatcher = "geojson"

NextSub ==
    \/ SubStart
    \/ SubReconnect
    \/ \E s \in 1..Len(sockets) : OnOpen(s)
    \/ \E s \in 1..Len(sockets) : OnClose(s)
    \/ \E f \in SubFrames : SubMessage(f)
    \/ \E tm \in timers : OnLifeTimeout(tm)
    \/ \E t \in PanelTopics : OnTopicChange(t)
    \/ OnSelectAll
    \/ OnSelectNone
    \/ \E topics \in SubscribeSets : OnSubscribe(topics)
    \/ \E t \in Topics : OnClearTopic(t)

SpecSub == InitSub /\ [][NextSub]_vars

\* --------------------------------------------------------- MapboxRenderer
\* the messages a bucket of a History Store holds, oldest first
MessagesOf(bucket) == [i \in 1..Len(bucket) |-> bucket[i].msg]

\* frames handed to the map backend
MapFrames ==
    { Frame(TRUE, "GeoJSON", "lane", p[2][1], p[2][3],
            Geo(p[1][1], p[1][2], p[2][2], p[2][4], p[1][3]), NoGeo, NoPoints) :
        p \in ({Line2} \X {RNone, RTop, RTopLife, RNeg})
               \cup ({Coll, Circle} \X {RNone}) }
    \cup
    { Frame(TRUE, NoType, "lane", Undef, Undef, NoGeo, NoGeo, NoPoints) }

\* manageGeometryHistory(type, topic) of MapboxRenderer after record rec
\* has been pushed; the timer keeps the last stored object
mapboxManageGeometryHistory(type, topic, rec) ==
    LET historyLimit == EffectiveLimit(mapHistoryLimits'[topic])
        d1 == Append(mapGeometryData[type][topic], rec)
        spins == historyLimit < 0
        d2 == IF spins THEN << >> ELSE DropFirst(d1, Excess(d1, historyLimit))
        lifeTime == mapLifeTimes'[topic]
    IN  /\ mapGeometryData' = [mapGeometryData EXCEPT ![type][topic] = d2]
        /\ mapBlocked' = spins
        /\ mapTimers' = IF ~spins /\ IsDef(lifeTime) /\ Val(lifeTime) > 0 /\ Len(d2) > 0
                        THEN mapTimers \cup {[type |-> type, topic |-> topic,
                                              geometry |-> Last(d2)]}
                        ELSE mapTimers

\* updateMapSource(type): the features of every topic of the type, collected
\* from the store as the caller has left it, replace the data of the source
updateMapSource(type) ==
    mapSource' = IF ~mapLoaded
                 THEN mapSource
                 ELSE [mapSource EXCEPT ![type] =
                         UNION { Range(MessagesOf(mapGeometryData'[type][t])) :
                                 t \in Topics }]

\* addGeoJSONToMap(type, geoJSON, color, topic); every modelled type has a
\* source once the map has loaded
addGeoJSONToMap(type, topic, id) ==
    IF type \notin GeoTypes
    THEN UNCHANGED << mapGeometryData, mapTimers, mapBlocked, mapSource >>
    ELSE /\ mapboxManageGeometryHistory(type, topic, [msg |-> id])
         /\ IF mapBlocked'
            THEN UNCHANGED mapSource     \* the loop above never returns
            ELSE updateMapSource(type)

\* MapboxRenderer.processGeometryData(data) for the frame numbered id,
\* called while the timers of pending are waiting
mapboxProcessGeometryData(data, id, pending) ==
    IF ~mapLoaded
    THEN \* setTimeout(() => this.processGeometryData(data), 200)
         /\ mapDeferred' = Append(pending, [id |-> id, data |-> data])
         /\ UNCHANGED << mapHistoryLimits, mapLifeTimes, mapGeometryData, mapTimers,
                         mapBlocked, mapApplied, mapSource >>
    ELSE /\ mapDeferred' = pending
         /\ mapApplied' = Append(mapApplied, id)
         /\ IF ~HasGeoJSON(data)
            THEN UNCHANGED << mapHistoryLimits, mapLifeTimes, mapGeometryData,
                              mapTimers, mapBlocked, mapSource >>
            ELSE LET geoJSON == ExtractGeoJSON(data)
                     topic == TopicOf(data)
                 IN  /\ mapLifeTimes' = [mapLifeTimes EXCEPT
                                            ![topic] = ResolveLifeTime(data, geoJSON)]
                     /\ mapHistoryLimits' = [mapHistoryLimits EXCEPT
                                            ![topic] = ResolveHistoryLimit(data, geoJSON)]
                     /\ addGeoJSONToMap(geoJSON.type, topic, id)

\* the map's load event: onMapLoaded()
OnMapLoaded ==
    /\ ~mapLoaded
    /\ mapLoaded' = TRUE
    /\ UNCHANGED << mapDeferred, mapHistoryLimits, mapLifeTimes, mapGeometryData,
                    mapTimers, mapBlocked, mapArrived, mapApplied, mapSource,
                    input, output, gvars, tvars, svars >>

\* a frame reaches the map backend
OnMapMessage(f) ==
    /\ ~mapBlocked
    /\ mapArrived < MaxMsgs
    /\ mapArrived' = mapArrived + 1
    /\ mapboxProcessGeometryData(f, mapArrived + 1, mapDeferred)
    /\ UNCHANGED << mapLoaded, input, output, gvars, tvars, svars >>

\* the oldest 200 ms timer fires: timers of equal delay fire in the order
\* they were set
OnDeferTimer ==
    /\ ~mapBlocked
    /\ mapDeferred # << >>
    /\ mapboxProcessGeometryData(mapDeferred[1].data, mapDeferred[1].id,
                                 DropFirst(mapDeferred, 1))
    /\ UNCHANGED << mapLoaded, mapArrived, input, output, gvars, tvars, svars >>

\* the timeout callback of MapboxRenderer.manageGeometryHistory: what it
\* does to the map backend
mapboxLifeTimeout(tm) ==
    LET index == IndexOf(mapGeometryData[tm.type][tm.topic], tm.geometry)
    IN  /\ tm \in mapTimers
        /\ mapTimers' = mapTimers \ {tm}
        /\ mapGeometryData' = IF index > 0
                              THEN [mapGeometryData EXCEPT
                                      ![tm.type][tm.topic] = Splice(@, index)]
                              ELSE mapGeometryData
        /\ IF index > 0 THEN updateMapSource(tm.type) ELSE UNCHANGED mapSource
        /\ UNCHANGED << mapLoaded, mapDeferred, mapHistoryLimits, mapLifeTimes,
                        mapBlocked, mapArrived, mapApplied >>

\* a life-time timeout of the map backend fires
OnMapLifeTimeout(tm) ==
    /\ ~mapBlocked
    /\ mapboxLifeTimeout(tm)
    /\ UNCHANGED << input, output, gvars, tvars, svars >>

InitMap == InitRenderer /\ Connected /\ Idle /\ dispatcher = "geojson"

NextMap ==
    \/ OnMapLoaded
    \/ \E f \in MapFrames : OnMapMessage(f)
    \/ OnDeferTimer
    \/ \E tm \in mapTimers : OnMapLifeTimeout(tm)

SpecMap == InitMap /\ [][NextMap]_vars

\* ------------------------------------- both backends on the same events
\* frames handed to GeometryRenderer and to MapboxRenderer alike
BothFrames ==
    { Frame(TRUE, "GeoJSON", "lane", p[2][1], p[2][3],
            Geo(p[1][1], p[1][2], p[2][2], p[2][4], p[1][3]), NoGeo, NoPoints) :
        p \in ({Line2} \X {RNone, RTop, RTopLife})
               \cup ({Line1} \X {RLife, RTopLife})
               \cup ({Coll, Circle} \X {RNone}) }

\* one frame is handed to processGeometryData of each backend
OnBothMessage(f) ==
    /\ ~blocked /\ ~mapBlocked
    /\ mapLoaded
    /\ received < MaxMsgs
    /\ received' = received + 1
    /\ mapArrived' = mapArrived + 1
    /\ handler' = "message"
    /\ frame' = f
    /\ processGeometryData(f, received + 1)
    /\ mapboxProcessGeometryData(f, mapArrived + 1, mapDeferred)
    /\ UNCHANGED << mapLoaded, redraws, dispatcher, tvars, input, output, svars >>

\* the life-time timeouts the two backends set for the same frame fire
OnBothLifeTimeout(tm, mt) ==
    /\ ~blocked /\ ~mapBlocked
    /\ mt.geometry.msg = tm.msg
    /\ lifeTimeout(tm)
    /\ mapboxLifeTimeout(mt)
    /\ handler' = "timer"
    /\ frame' = NoFrame
    /\ UNCHANGED << received, redraws, dispatcher, tvars, input, output, svars >>

NextBoth ==
    \/ OnMapLoaded
    \/ \E f \in BothFrames : OnBothMessage(f)
    \/ \E tm \in timers, mt \in mapTimers : OnBothLifeTimeout(tm, mt)

SpecBoth == InitMap /\ [][NextBoth]_vars

\* ------------------------------------------- functions applied to inputs
Coords == 0..MaxCoord
PointLists ==
    UNION { [1..n -> { Pt(x, y) : x \in Coords, y \in Coords }] : n \in 0..MaxPoints }

\* legacy Polygon frames handed to convertPolygonToGeoJSON
PolygonCalls ==
    { [fn |-> "convertPolygonToGeoJSON",
       arg |-> Frame(TRUE, "Polygon", "lane", Undef, Undef, NoGeo, NoGeo, pts)] :
        pts \in { Points(s) : s \in PointLists } \cup {NoPoints} }

Backends == {"canvas", "mapbox"}
ColorTopics == {"default", "lane", "boundary", "agent", "constructor"}
ColorTypes == {"Point", "LineString", "Polygon", "Circle"}

\* <<backend, topic, dataType>> handed to getTopicColor
ColorCalls ==
    { [fn |-> "getTopicColor", arg |-> << b, t, k >>] :
        b \in Backends, t \in ColorTopics, k \in ColorTypes }

\* values of properties.color: '#rrggbb' and '0xrrggbb' with every digit 0
\* or f, 'rgb(', 'red', true, an absent property, and four numbers
ColorValues ==
    { ColorString(pre, d) : pre \in {"#", "0x"}, d \in [1..6 -> {0, 15}] }
    \cup { ColorString("rgb(", << >>), ColorString("r", << 14, 13 >>),
            [type |-> "boolean"], Undef }
    \cup { ColorNumber(v) : v \in {0, 1, 255, 16777215} }

\* <<properties.color, topic, type>> of a frame handed to processGeometryData
ExtractCalls ==
    { [fn |-> "extractColor", arg |-> << c, t, "LineString" >>] :
        c \in ColorValues, t \in {"lane", "boundary"} }

\* sub-shapes: an open and a closed outline, with or without an id
Shapes ==
    { [id |-> id, points |-> pts] :
        id \in {Undef, Def("a")}, pts \in {<< P0, P1, P2 >>, << P0, P1, P2, P0 >>} }

\* legacy PolygonVector and LineStringVector frames handed to their converters
VectorCalls ==
    UNION { { [fn |-> "convertPolygonVectorToGeoJSON", arg |-> [polygons |-> v]],
              [fn |-> "convertLineStringVectorToGeoJSON", arg |-> [lines |-> v]] } :
            v \in UNION { [1..n -> Shapes] : n \in 0..MaxShapes } }

InitFn ==
    /\ InitRenderer /\ Connected /\ dispatcher = "geojson"
    /\ input \in PolygonCalls \cup ColorCalls \cup ExtractCalls \cup VectorCalls
    /\ output = Undef
    /\ InitMapbox
    /\ desiredTopics = {} /\ queue = << >> /\ commands = 0

ConvertPolygon ==
    /\ input.fn = "convertPolygonToGeoJSON"
    /\ output = Undef
    /\ output' = Def(convertPolygonToGeoJSON(input.arg))
    /\ UNCHANGED << input, gvars, tvars, mvars, svars >>

GetTopicColor ==
    /\ input.fn = "getTopicColor"
    /\ output = Undef
    /\ output' = Def(getTopicColor(input.arg[1], input.arg[2], input.arg[3]))
    /\ UNCHANGED << input, gvars, tvars, mvars, svars >>

ExtractColorCall ==
    /\ input.fn = "extractColor"
    /\ output = Undef
    /\ output' = Def(ExtractColor(input.arg[1], input.arg[2], input.arg[3]))
    /\ UNCHANGED << input, gvars, tvars, mvars, svars >>

ConvertVector ==
    /\ input.fn \in {"convertPolygonVectorToGeoJSON", "convertLineStringVectorToGeoJSON"}
    /\ output = Undef
    /\ output' = IF input.fn = "convertPolygonVectorToGeoJSON"
                 THEN Def(convertPolygonVectorToGeoJSON(input.arg))
                 ELSE Def(convertLineStringVectorToGeoJSON(input.arg))
    /\ UNCHANGED << input, gvars, tvars, mvars, svars >>

NextFn == ConvertPolygon \/ GetTopicColor \/ ExtractColorCall \/ ConvertVector

SpecFn == InitFn /\ [][NextFn]_vars

\* ------------------------------------------------------------------ claims
BucketKeys == GeoTypes \X Topics
Records(k, t) == geometryData[k][t]
MsgsOf(s) == { s[i].msg : i \in 1..Len(s) }

\* the frame handled by this step, when the step is a handleMessage call
Handled(f) == received' = received + 1 /\ frame' = f

NoOverrides(data) ==
    LET geoJSON == ExtractGeoJSON(data)
    IN  /\ ~IsDef(data.history_limit) /\ ~IsDef(data.life_time)
        /\ ~IsDef(geoJSON.phl) /\ ~IsDef(geoJSON.plt) /\ ~IsDef(geoJSON.fhl)

\* C1 as stated: every bucket (K,T) holds at most the (positive) history
\* limit currently resolved for T, whichever geometry type the message that
\* resolved it had.
C1_Original ==
    ~blocked =>
        \A b \in BucketKeys :
            (IsDef(historyLimits[b[2]]) /\ Val(historyLimits[b[2]]) > 0)
                => Len(Records(b[1], b[2])) <= Val(historyLimits[b[2]])

\* C1 amended: a bucket (K,T) grows only in a record call on (K,T), and right
\* after every record call on (K,T) that returns it holds at most h records,
\* h being the limit that call resolved for T with 0 counted as 1.  So at
\* any time the bucket is within the limit of the most recent message on T
\* of type K, not of any type.
C1_Amended ==
    [][ ~blocked' =>
          \A b \in BucketKeys :
            LET old == geometryData[b[1]][b[2]]
                new == geometryData'[b[1]][b[2]]
            IN  IF received' = received + 1 /\ new # << >> /\ Last(new).msg = received'
                THEN Len(new) <= EffectiveLimit(historyLimits'[b[2]])
                ELSE Len(new) <= Len(old) ]_vars

\* a bucket holding two records of a topic whose resolved limit is 1,
\* because a message of another type resolved it last
C1_Witness ==
    /\ ~blocked
    /\ handler = "message"
    /\ \E t \in Topics, k1, k2 \in GeoTypes :
          /\ k1 # k2
          /\ Len(Records(k1, t)) = 2
          /\ Len(Records(k2, t)) = 1
          /\ Last(Records(k2, t)).msg = received
          /\ historyLimits[t] = Def(1)

\* C3: when the life-time timer of a record fires, the record is in no
\* bucket and none of its display objects is in the Render Sink afterwards
\* (stated here for the records that were drawn with a display object).
C3_Claim ==
    [][ \A tm \in timers :
          (tm \notin timers' /\ tm.geometry # NullH) =>
            /\ \A b \in BucketKeys : tm.msg \notin MsgsOf(geometryData'[b[1]][b[2]])
            /\ \A k \in GeoTypes : \A h \in children'[k] : h.msg # tm.msg ]_vars

\* C4: between handlers, every stored record has a live display object in
\* the Render Sink and every display object in the sink belongs to a
\* stored record.
C4_Claim ==
    ~blocked =>
        \A k \in GeoTypes :
            /\ \A t \in Topics : \A m \in MsgsOf(Records(k, t)) :
                  \E h \in children[k] : h.msg = m /\ h \notin destroyed
            /\ \A h \in children[k] :
                  \E t \in Topics : h.msg \in MsgsOf(Records(k, t))

\* C5: a legacy frame whose conversion is not null puts one new record at
\* the end of the bucket (type of the converted geometry, topic of the
\* frame) and its top-level history_limit and life_time become the
\* topic's retention policy.
C5_Claim ==
    [][ \A f \in LegacyFrames :
          (Handled(f) /\ convertLegacyToGeoJSON(f) # NoGeo) =>
            LET k == convertLegacyToGeoJSON(f).type
                new == geometryData'[k][TopicOf(f)]
            IN  /\ new # << >>
                /\ Last(new).msg = received'
                /\ IsDef(f.history_limit) => historyLimits'[TopicOf(f)] = f.history_limit
                /\ IsDef(f.life_time) => lifeTimes'[TopicOf(f)] = f.life_time ]_vars

\* a legacy Polygon frame whose points list has fewer than three points
ShortPolygon(f) ==
    f.ok /\ f.data_type = "Polygon" /\ f.points.present /\ Len(f.points.pts) < 3

\* C6: handling a legacy Polygon frame with fewer than three points adds no
\* record to and evicts none from any bucket, and the Render Sink gets no
\* add and no remove.
C6_Dropped ==
    [][ \A f \in Frames :
          (Handled(f) /\ ShortPolygon(f)) =>
            /\ geometryData' = geometryData
            /\ geometries' = geometries
            /\ children' = children
            /\ destroyed' = destroyed
            /\ sinkAdds' = 0
            /\ sinkRemoves' = 0 ]_vars

\* a two-point Polygon frame has just been handled while a bucket of its
\* topic holds a record and a display object
C6_Witness ==
    /\ handler = "message"
    /\ ShortPolygon(frame)
    /\ Len(frame.points.pts) = 2
    /\ \E k \in GeoTypes :
          Records(k, TopicOf(frame)) # << >> /\ children[k] # {}

\* a canonical frame that the dispatcher passes on to the renderer; the
\* validating dispatcher accepts the legacy vocabulary only
Canonical(f) == dispatcher = "geojson" /\ f.ok /\ isGeoJSONMessage(f)

\* a canonical frame of a modelled type whose geometry can be drawn and
\* that carries no retention override
PlainCanonical(f) ==
    /\ Canonical(f)
    /\ ExtractGeoJSON(f).type \in GeoTypes
    /\ Drawable(ExtractGeoJSON(f).type, ExtractGeoJSON(f).n)
    /\ NoOverrides(f)

\* the bucket holds exactly the one record of an earlier message, with its
\* display object in the sink
HoldsOne(k, t) ==
    /\ Len(geometryData[k][t]) = 1
    /\ Len(geometries[k][t]) = 1
    /\ geometries[k][t][1] \in children[k]
    /\ geometries[k][t][1] \notin destroyed

C8_Original ==
    [][ \A f \in Frames :
          (Handled(f) /\ Canonical(f) /\ NoOverrides(f)
             /\ IsDef(historyLimits[TopicOf(f)])) =>
            /\ historyLimits'[TopicOf(f)] = historyLimits[TopicOf(f)]
            /\ lifeTimes'[TopicOf(f)] = lifeTimes[TopicOf(f)] ]_vars

\* C8 amended: every canonical frame sets the policy of its topic anew.
\* history limit: top-level history_limit, else properties.history_limit,
\* else the first feature's properties.history_limit of a non-empty
\* FeatureCollection, else 1.  life time: top-level life_time, else
\* properties.life_time, else 0.  The value resolved earlier is not used.
C8_Amended ==
    [][ \A f \in Frames :
          (Handled(f) /\ Canonical(f)) =>
            LET g == ExtractGeoJSON(f)
                t == TopicOf(f)
                hl == historyLimits'[t]
                lt == lifeTimes'[t]
            IN  /\ IsDef(f.history_limit) => hl = f.history_limit
                /\ (~IsDef(f.history_limit) /\ IsDef(g.phl)) => hl = g.phl
                /\ (~IsDef(f.history_limit) /\ ~IsDef(g.phl) /\ IsDef(g.fhl)
                      /\ g.type = "FeatureCollection" /\ Val(g.n) > 0) => hl = g.fhl
                /\ (~IsDef(f.history_limit) /\ ~IsDef(g.phl) /\ ~IsDef(g.fhl)) => hl = Def(1)
                /\ IsDef(f.life_time) => lt = f.life_time
                /\ (~IsDef(f.life_time) /\ IsDef(g.plt)) => lt = g.plt
                /\ (~IsDef(f.life_time) /\ ~IsDef(g.plt)) => lt = Def(0) ]_vars

\* a frame without overrides has just reset the policy of a topic that
\* still holds two records stored under an earlier limit of 2 and a timer
\* set under an earlier life time
C8_Witness ==
    /\ handler = "message"
    /\ Canonical(frame) /\ NoOverrides(frame)
    /\ historyLimits[TopicOf(frame)] = Def(1)
    /\ lifeTimes[TopicOf(frame)] = Def(0)
    /\ \E k \in GeoTypes : Len(Records(k, TopicOf(frame))) = 2
    /\ \E tm \in timers : tm.topic = TopicOf(frame)

\* ------------------------------------------------- claims on connections
\* the last socket that reached OPEN, 0 when none has
LastOpened ==
    IF \E i \in 1..Len(sockets) : sockets[i].wasOpen
    THEN CHOOSE i \in 1..Len(sockets) :
            sockets[i].wasOpen /\ \A j \in (i + 1)..Len(sockets) : ~sockets[j].wasOpen
    ELSE 0

\* consecutive connect failures: the connection attempts since the last
\* open connection (since the start when there was none) that have ended
\* without reaching OPEN
ConnectFailures ==
    Cardinality({ i \in (LastOpened + 1)..Len(sockets) :
                    sockets[i].readyState \in {"CLOSED", "THROWN"} })

\* no timer is pending and no socket can deliver another event
Terminal ==
    /\ ~startTimer
    /\ reconnectTimers = 0
    /\ connectionTimeouts = {}
    /\ \A i \in 1..Len(sockets) : sockets[i].readyState \in {"CLOSED", "THROWN"}

\* C2 as stated: once MaxReconnectAttempts consecutive connect failures have
\* happened, no connection attempt is scheduled or under way and the
\* terminal failure has been reported exactly once.
C2_Original ==
    ConnectFailures >= MaxReconnectAttempts =>
        (Terminal /\ failedReports = 1)

\* C2 amended: the terminal failure is reported when a connection attempt
\* fails after MaxReconnectAttempts reconnections have been scheduled since
\* the last open connection: at the (MaxReconnectAttempts + 1)-th
\* consecutive connect failure after the start, at the
\* MaxReconnectAttempts-th after an open connection was lost.  It is
\* reported at most once; from then on nothing is scheduled and the state
\* of the session never changes again.
C2_Amended ==
    [][ LET limit == IF LastOpened' > 0 THEN MaxReconnectAttempts
                     ELSE MaxReconnectAttempts + 1
        IN  /\ ConnectFailures' <= limit
            /\ failedReports' = (IF ConnectFailures' = limit THEN 1 ELSE 0)
            /\ failedReports' = 1 => Terminal' /\ status' = "Failed - max attempts reached"
            /\ failedReports = 1 =>
                  UNCHANGED << sockets, ws, connectionTimeouts, startTimer,
                               reconnectTimers, reconnectAttempts, failedReports,
                               status >> ]_vars

\* the terminal failure after a cold start: six attempts have failed
C2_Witness ==
    /\ failedReports = 1
    /\ LastOpened = 0
    /\ ConnectFailures = MaxReconnectAttempts + 1
    /\ Terminal

\* C9: at most one socket is CONNECTING or OPEN and at most one reconnect
\* timer is pending.
C9_OneConnection ==
    /\ Cardinality(Live) <= 1
    /\ reconnectTimers <= 1

\* a reconnection is under way after a connect timeout, a constructor
\* error and a lost connection
C9_Witness ==
    /\ Cardinality(Live) = 1
    /\ Len(sockets) >= 4
    /\ sockets[Len(sockets)].readyState = "CONNECTING"
    /\ \E i \in 1..Len(sockets) : sockets[i].readyState = "THROWN"
    /\ \E i \in 1..Len(sockets) : sockets[i].wasOpen /\ sockets[i].readyState = "CLOSED"
    /\ reconnectAttempts >= 2

\* C10: the step that takes a socket to OPEN passes a set_topics command
\* with the desired topics to ws.send.
C10_Claim ==
    [][ (\E i \in 1..Len(sockets) :
            sockets[i].readyState = "CONNECTING" /\ sockets'[i].readyState = "OPEN") =>
          /\ Len(sent') > Len(sent)
          /\ Last(sent') = SetTopicsCommand(desiredTopics') ]_vars

\* ------------------------------------- claims on the subscription layer
\* the set_topics commands of a queue, oldest first
SetTopicsIn(q) == SelectSeq(q, LAMBDA c : c.action = "set_topics")
\* the other commands of a queue, oldest first
OthersIn(q) == SelectSeq(q, LAMBDA c : c.action # "set_topics")

Purged(t) ==
    /\ \A k \in GeoTypes :
          /\ geometries[k][t] = << >>
          /\ geometryData[k][t] = << >>
          /\ \A h \in children[k] : h.topic # t
    /\ \A tm \in timers : tm.topic # t

C14_ClosedRing ==
    (input.fn = "convertPolygonToGeoJSON" /\ IsDef(output)
        /\ input.arg.points.present /\ Len(input.arg.points.pts) >= 1) =>
        LET pts == input.arg.points.pts
            n == Len(pts)
            g == Val(output)
            ring == g.coordinates[1]
        IN  /\ g.type = "Polygon"
            /\ Len(g.coordinates) = 1
            /\ \A i \in 1..n : ring[i] = << pts[i].x, pts[i].y >>
            /\ Last(ring) = ring[1]
            /\ Len(ring) = (IF pts[n] # pts[1] THEN n + 1 ELSE n)
            /\ (pts = << P0, P1, P2 >>) =>
                  ring = << << 0, 0 >>, << 1, 0 >>, << 1, 1 >>, << 0, 0 >> >>

\* the open triangle has been converted and closed, (0,0) appended
C14_Witness ==
    /\ input.fn = "convertPolygonToGeoJSON"
    /\ input.arg.points = Points(<< P0, P1, P2 >>)
    /\ IsDef(output)
    /\ Val(output).coordinates = << << << 0, 0 >>, << 1, 0 >>, << 1, 1 >>, << 0, 0 >> >> >>

\* C17: getTopicColor returns the override of the topic when one is
\* configured, else the default of the geometry type, else the fallback;
\* the color is defined for every topic and type, the topic 'default' of
\* messages without a topic included.
C17_Claim ==
    (input.fn = "getTopicColor" /\ IsDef(output)) =>
        LET b == input.arg[1]
            topic == input.arg[2]
            type == input.arg[3]
            color == Val(output)
            overridden == topic \in DOMAIN TOPIC_STYLES(b) /\ IsDef(TOPIC_STYLES(b)[topic])
        IN  /\ IsDef(color)
            /\ overridden => color = TOPIC_STYLES(b)[topic]
            /\ (~overridden /\ type \in DOMAIN DefaultColors(b)) =>
                  color = Def(DefaultColors(b)[type])
            /\ (~overridden /\ type \notin DOMAIN DefaultColors(b)) =>
                  color = Def(FallbackColor(b))

\* ------------------------------------------------ claims on the backoff
\* the step schedules a reconnection
Scheduled == reconnectAttempts' = reconnectAttempts + 1

\* C15 as stated: the delay of a scheduled reconnection is
\* BaseReconnectTimeout * 2^k, k being the consecutive failed connection
\* attempts since the start or since the last open connection.
C15_Original ==
    [][ Scheduled => timeout' = BaseReconnectTimeout * 2 ^ ConnectFailures' ]_vars

\* C15 amended: k is the number of reconnections scheduled before this one
\* since the start or since the last open connection.  After a cold start
\* that is one less than the consecutive failed attempts (the first failure
\* waits the base timeout); after an open connection was lost it equals
\* them (the loss itself waits the base timeout).  The delays are
\* 1, 2, 4, 8, 16 s, and an open resets k to 0.
C15_Amended ==
    [][ /\ Scheduled =>
              /\ timeout' = BaseReconnectTimeout * 2 ^ reconnectAttempts
              /\ reconnectAttempts =
                    (IF LastOpened' > 0 THEN ConnectFailures' ELSE ConnectFailures' - 1)
              /\ timeout' \in { BaseReconnectTimeout * 2 ^ k :
                                  k \in 0..(MaxReconnectAttempts - 1) }
        /\ (\E i \in 1..Len(sockets) :
               sockets[i].readyState = "CONNECTING" /\ sockets'[i].readyState = "OPEN")
              => reconnectAttempts' = 0 ]_vars

\* an open connection was lost and the reconnection failed once: the
\* second reconnection waits 2 s
C15_Witness ==
    /\ LastOpened > 1
    /\ ConnectFailures = 1
    /\ reconnectAttempts = 2
    /\ timeout = 2 * BaseReconnectTimeout
    /\ reconnectTimers = 1

\* ------------------------------------------------ claims on bad frames
\* a frame that is not JSON, or that the loaded dispatcher recognises as
\* none of its formats
Unrecognised(f) ==
    \/ ~f.ok
    \/ IF dispatcher = "validated"
       THEN f.data_type \notin AllLegacyKinds
       ELSE ~isGeoJSONMessage(f) /\ ~isLegacyFormatMessage(f)

\* C16: handling a frame that fails to parse or matches no known format
\* changes nothing: the connection, the reconnect counter, the retention
\* policy, every bucket and the Render Sink stay as they were, the sink
\* gets no call, and handleMessage returns (no exception, no spinning).
C16_Dropped ==
    [][ \A f \in Frames :
          (Handled(f) /\ Unrecognised(f)) =>
            /\ UNCHANGED << rvars, tvars >>
            /\ sinkAdds' = 0 /\ sinkRemoves' = 0
            /\ ~blocked' ]_vars

\* a frame of unknown format has just been handled while a bucket of its
\* topic holds a record with a pending life-time timer
C16_Witness ==
    /\ handler = "message"
    /\ frame.ok /\ frame.data_type = "Other"
    /\ dispatcher = "geojson"
    /\ \E k \in GeoTypes : Records(k, TopicOf(frame)) # << >> /\ children[k] # {}
    /\ timers # {}

\* ------------------------------------------- claims on the two arrays
\* C19: a life-time timer that fires removes no record other than the one
\* it was set for, and no display object of another record leaves the
\* Render Sink.
C19_Claim ==
    [][ \A tm \in timers :
          tm \notin timers' =>
            /\ \A b \in BucketKeys :
                  MsgsOf(geometryData[b[1]][b[2]]) \ MsgsOf(geometryData'[b[1]][b[2]])
                      \subseteq {tm.msg}
            /\ \A k \in GeoTypes :
                  \A h \in children[k] \ children'[k] : h.msg = tm.msg ]_vars

\* C20: between handlers the two arrays of every bucket have the same
\* length, and the entry of geometries at an index is the display object
\* of the record at that index (null when that record could not be drawn).
C20_Claim ==
    ~blocked =>
        \A b \in BucketKeys :
            LET g == geometries[b[1]][b[2]]
                d == geometryData[b[1]][b[2]]
            IN  /\ Len(g) = Len(d)
                /\ \A i \in 1..Len(g) : g[i] = NullH \/ g[i].msg = d[i].msg

\* ---------------------------------------- claims on the transform rebuild
\* the step is a call of updateCoordinateTransform
Rebuilt == redraws' = redraws + 1

\* C21: a transform change leaves the record list of every bucket and the
\* retention policy of every topic as they were, draws every retained
\* record once, in insertion order, and leaves every bucket with as many
\* entries in its list of handles as it had before.
C21_Claim ==
    [][ Rebuilt =>
          /\ geometryData' = geometryData
          /\ historyLimits' = historyLimits
          /\ lifeTimes' = lifeTimes
          /\ \A b \in BucketKeys :
                Len(geometries'[b[1]][b[2]]) = Len(geometries[b[1]][b[2]]) ]_vars

\* ------------------------------------------- claims on the connect timeout
\* C22: a connect timeout is pending only for the current socket while it
\* is still connecting, so the open, error and close events cancel it; when
\* it fires it force-closes that socket, and only a connecting socket is
\* ever force-closed, never an open one; the force-closed socket goes on to
\* its error and close events, and the close event schedules one
\* reconnection (or, with the attempts used up, one failure report).
C22_ConnectTimeout ==
    [][ /\ \A s \in connectionTimeouts' :
              sockets'[s].readyState = "CONNECTING" /\ s = ws'
        /\ \A s \in 1..Len(sockets) :
              /\ (sockets'[s].readyState = "CLOSING" /\ sockets[s].readyState # "CLOSING") =>
                    /\ sockets[s].readyState = "CONNECTING"
                    /\ s \in connectionTimeouts
                    /\ status' = "Connection timeout"
              /\ (s \in connectionTimeouts /\ s \notin connectionTimeouts'
                    /\ sockets'[s].readyState = sockets[s].readyState) => FALSE
              /\ sockets[s].readyState = "CLOSING" =>
                    sockets'[s].readyState \in {"CLOSING", "FAILED"}
              /\ (sockets[s].readyState = "FAILED" /\ sockets'[s].readyState # "FAILED") =>
                    /\ sockets'[s].readyState = "CLOSED"
                    /\ IF BelowMaxAttempts
                       THEN /\ reconnectTimers' = reconnectTimers + 1
                            /\ reconnectAttempts' = reconnectAttempts + 1
                            /\ failedReports' = failedReports
                       ELSE /\ reconnectTimers' = reconnectTimers
                            /\ reconnectAttempts' = reconnectAttempts
                            /\ failedReports' = failedReports + 1 ]_vars

\* the connect timeout of a reconnection attempt has fired: the socket is
\* closing and has never been open
C22_Witness ==
    /\ status = "Connection timeout"
    /\ ws # 0
    /\ sockets[ws].readyState = "CLOSING"
    /\ ~sockets[ws].wasOpen
    /\ reconnectAttempts >= 1
    /\ connectionTimeouts = {}

\* --------------------------------------- claims on the legacy converters
\* C23: the conversion of a legacy Polygon whose points list has fewer
\* than three points is null.
C23_Claim ==
    (/\ input.fn = "convertPolygonToGeoJSON"
     /\ output # Undef
     /\ input.arg.points.present
     /\ Len(input.arg.points.pts) < 3) => Val(output) = NoGeo

\* ------------------------------------------- claims on color extraction
\* a color property in one of the three accepted representations, with a
\* value in 0x000000..0xffffff
AcceptedColor(c) ==
    /\ c # Undef
    /\ \/ c.type = "string" /\ c.prefix \in {"#", "0x"} /\ Len(c.digits) = 6
       \/ c.type = "number" /\ c.v \in 0..16777215

\* the number an accepted color property stands for
NumericValue(c) == IF c.type = "number" THEN c.v ELSE Val(ParseHex(c.digits))

\* C24: the color stored for an accepted color property is the number it
\* stands for, 0 included; for every other property value, and only then,
\* the topic color is used.
C24_Claim ==
    (input.fn = "extractColor" /\ output # Undef) =>
        IF AcceptedColor(input.arg[1])
        THEN /\ Val(output).property
             /\ Val(output).color = Def(NumericValue(input.arg[1]))
        ELSE ~Val(output).property

\* C25: a legacy PolygonVector (LineStringVector) of n sub-shapes, n >= 0,
\* becomes a FeatureCollection of n features in the same order; polygon
\* rings are closed, lines are left as they are, and feature i carries the
\* id of its sub-shape or 'polygon_i' ('line_i'), counted from 0.
C25_Claim ==
    (input.fn \in {"convertPolygonVectorToGeoJSON", "convertLineStringVectorToGeoJSON"}
        /\ output # Undef) =>
        LET polygons == input.fn = "convertPolygonVectorToGeoJSON"
            shapes == IF polygons THEN input.arg.polygons ELSE input.arg.lines
            result == Val(output)
        IN  /\ result.type = "FeatureCollection"
            /\ Len(result.features) = Len(shapes)
            /\ \A i \in 1..Len(shapes) :
                  LET ring == PolygonCoordinates(shapes[i].points)
                      open == ring[1] # Last(ring)
                  IN  /\ result.features[i].coordinates =
                            IF polygons
                            THEN << IF open THEN Append(ring, ring[1]) ELSE ring >>
                            ELSE ring
                      /\ result.features[i].id =
                            IF IsDef(shapes[i].id) THEN Val(shapes[i].id)
                            ELSE IF polygons THEN "polygon_" \o ToString(i - 1)
                            ELSE "line_" \o ToString(i - 1)

\* ------------------------------------------------ claims on termination
\* C26: the capacity-eviction loop of manageGeometryHistory exits for every
\* history limit a frame can carry: no handler is left spinning.
C26_Claim == ~blocked

\* ------------------------------------------ claims on failed connections
\* the step ends a connection attempt or a connection: a socket gets its
\* close event, or new WebSocket(...) throws
FailureStep ==
    \/ \E s \in 1..Len(sockets) :
          sockets[s].readyState # "CLOSED" /\ sockets'[s].readyState = "CLOSED"
    \/ Len(sockets') > Len(sockets) /\ Last(sockets').readyState = "THROWN"

\* the reconnect timer whose callback is running in this step, if any
TimerConsumed ==
    IF Len(sockets') > Len(sockets) /\ startTimer' = startTimer THEN 1 ELSE 0

\* C27 as stated: every failure schedules exactly one reconnection and
\* adds one to the attempt counter, which stays within 0..maxReconnectAttempts.
C27_Original ==
    [][ /\ FailureStep =>
              /\ reconnectTimers' = reconnectTimers - TimerConsumed + 1
              /\ reconnectAttempts' = reconnectAttempts + 1
        /\ reconnectAttempts' \in 0..MaxReconnectAttempts ]_vars

\* C27 amended: every failure calls reconnect() exactly once, whichever
\* way the attempt failed.  While the counter is below the maximum the
\* call schedules exactly one reconnection and adds one to the counter; at
\* the maximum it schedules none, leaves the counter and reports the final
\* failure.  No other step schedules a reconnection or raises the counter,
\* which stays within 0..maxReconnectAttempts.
C27_Amended ==
    [][ /\ FailureStep =>
              IF BelowMaxAttempts
              THEN /\ reconnectTimers' = reconnectTimers - TimerConsumed + 1
                   /\ reconnectAttempts' = reconnectAttempts + 1
                   /\ failedReports' = failedReports
              ELSE /\ reconnectTimers' = reconnectTimers - TimerConsumed
                   /\ reconnectAttempts' = reconnectAttempts
                   /\ failedReports' = failedReports + 1
        /\ ~FailureStep =>
              /\ reconnectTimers' = reconnectTimers - TimerConsumed
              /\ reconnectAttempts' <= reconnectAttempts
              /\ failedReports' = failedReports
        /\ reconnectAttempts' \in 0..MaxReconnectAttempts ]_vars

\* attempts have failed in each of the four ways (constructor error, error
\* then close after a timeout or a refusal, close of a connection that had
\* opened) and the counter has been raised at least twice since
C27_Witness ==
    /\ reconnectAttempts >= 2
    /\ reconnectTimers = 1
    /\ \E i \in 1..Len(sockets) : sockets[i].readyState = "THROWN"
    /\ \E i \in 1..Len(sockets) : sockets[i].readyState = "CLOSED" /\ sockets[i].wasOpen
    /\ \E i \in 1..Len(sockets) : sockets[i].readyState = "CLOSED" /\ ~sockets[i].wasOpen
    /\ status = "Reconnecting"

\* --------------------------------------------- claims on bucket isolation
\* the bucket a frame is recorded in, if it is recorded at all
TargetOf(f) ==
    IF Canonical(f) /\ ExtractGeoJSON(f).type \in GeoTypes
    THEN { << ExtractGeoJSON(f).type, TopicOf(f) >> }
    ELSE {}

\* C28: handling a frame recorded in bucket (K,T) leaves the record list
\* and the handle list of every other bucket as they were, and every
\* display object the Render Sink gains or loses belongs to (K,T).
C28_Isolation ==
    [][ \A f \in Frames :
          Handled(f) =>
            /\ \A b \in BucketKeys \ TargetOf(f) :
                  /\ geometryData'[b[1]][b[2]] = geometryData[b[1]][b[2]]
                  /\ geometries'[b[1]][b[2]] = geometries[b[1]][b[2]]
            /\ \A k \in GeoTypes :
                  \A h \in (children[k] \ children'[k]) \cup (children'[k] \ children[k]) :
                      << k, h.topic >> \in TargetOf(f)
            /\ \A h \in destroyed' \ destroyed :
                  \E k \in GeoTypes : << k, h.topic >> \in TargetOf(f) ]_vars

\* a frame on topic lane has just evicted the previous lane record while
\* the bucket of the same type on the default topic holds a record with its
\* display object in the same container
C28_Witness ==
    /\ handler = "message"
    /\ TargetOf(frame) = { << "LineString", "lane" >> }
    /\ sinkRemoves = 1
    /\ Len(Records("LineString", "default")) = 1
    /\ \E h \in children["LineString"] : h.topic = "default"
    /\ \E h \in children["LineString"] : h.topic = "lane"

\* ------------------------------------------- claims on the two backends
\* C29: fed the same frames and the same timer firings, the canvas backend
\* and the loaded map backend hold, in every (type, topic) bucket, the
\* records of the same messages in the same order.
C29_Claim ==
    \A k \in GeoTypes, t \in Topics :
        MessagesOf(geometryData[k][t]) = MessagesOf(mapGeometryData[k][t])

\* how often frame id is waiting on a 200 ms timer, and how often it has
\* been applied
TimesDeferred(id) == Cardinality({ i \in DOMAIN mapDeferred : mapDeferred[i].id = id })
TimesApplied(id) == Cardinality({ i \in DOMAIN mapApplied : mapApplied[i] = id })

\* the frames whose records the store holds for a type
StoredOf(type) == UNION { Range(MessagesOf(mapGeometryData[type][t])) : t \in Topics }

\* C30: every frame handed to the map backend, the ones that came before the
\* map had loaded included, is either waiting on one timer or has been
\* applied once, never both and never twice; and the map source of every
\* type holds the features of exactly the records stored for that type.
C30_Claim ==
    /\ \A id \in 1..mapArrived : TimesDeferred(id) + TimesApplied(id) = 1
    /\ \A k \in GeoTypes : mapSource[k] = StoredOf(k)

\* --------------------------------------------- claims on arrival order
\* C18: the frames are applied to the History Store in the order they
\* arrived, the frames deferred while the map was loading included.
C18_Claim ==
    \A i, j \in 1..Len(mapApplied) : i < j => mapApplied[i] < mapApplied[j]

====
